---- MODULE Spec2Model ----
(***************************************************************************)
(* Model of dullgiulio/wiki-extract-mdata.                                 *)
(*                                                                         *)
(*   SpecFetch   the extractor's image pipeline: extraction workers that   *)
(*               render <img> nodes (main.go, processor.renderText) call   *)
(*               imgproc.get, which hands a closure to the fetch pool      *)
(*               (images.go: imgproc.get / run / fetch) around the LRU     *)
(*               cache.                                                    *)
(*   SpecImport  the importer (importer/main.go): the main goroutine       *)
(*               reads lines, draws entry IDs, interns keys and sends      *)
(*               rows on the db channel; the store goroutine persists.     *)
(*   SpecPipe    the extractor as a whole (main.go): the producer sends    *)
(*               identifiers on the domains channel, the extraction        *)
(*               workers read and render pages (with the image pipeline    *)
(*               of SpecFetch) and send records on out, the printer writes *)
(*               them, and main waits in processor.run.                    *)
(*   SpecRuns    two runs of the importer's addKeys over the same records. *)
(*                                                                         *)
(* The package lru imported by images.go is not among the sources; its     *)
(* New/Get/Add are modelled from the specification's description of the    *)
(* ResourceCache (bounded, least recently used entry evicted).             *)
(***************************************************************************)
EXTENDS Integers, Sequences, FiniteSets, Bags, TLC

\* ------------------------------------------------------------------ bounds
\* nworkers of main.go:294 stands for both pools; the model runs fewer.
NCallers == 2
NWorkers == 2
\* maxLru of main.go:297 is 256; the model's cache is smaller.
MaxLru == 2
\* image references rendered per document, documents emitted per run
MaxRefs == 2
MaxDocs == 2

Callers == 1..NCallers
Workers == 1..NWorkers
URLs == {"u1", "u2", "u3"}

\* (*mimed)(nil): what newMimedFromUrl returns beside an error
NilMimed == <<"nil">>
\* the mimed fetched from url u
Payload(u) == <<"mimed", u>>

VARIABLES
  \* ---- images.go
  lru,      \* the cache: entries [key, val], most recently used first
  mux,      \* mux[c]: holder of the mutex inside the imgproc copy of c's get call
  wpc,      \* fetch worker's position in run/fetch
  job,      \* the caller whose closure the worker runs (0: none)
  wres,     \* fetch's local m, err
  raced,    \* the worker's current cache call overlapped another worker's:
            \* "no", "get" (only Get calls) or "add" (an Add call)
  res,      \* get's closure variables m, err
  done,     \* get's done channel is closed
  served,   \* what fetch returned for the caller's closure, and for which url
  \* ---- main.go, renderText on an img node
  gpc,      \* extraction worker's position
  gurl,     \* the url passed to get
  ret,      \* what get returned
  refs,     \* image references rendered in the current document
  piece,    \* what renderText wrote for the last image reference
  emitted,  \* documents sent on out
  crashed,  \* "no", or how the process died
  \* ---- importer/main.go
  ipc,      \* main goroutine's position
  nlines,   \* lines read from the file
  data,     \* the record unmarshalled from the current line
  nextID,   \* entryGen.nextID
  keys,     \* the dbkey map: trimmed name -> id
  vals,     \* the dbvalues addKeys returned for the current record
  assigned, \* the entry ids generate returned, in call order
  interned, \* the names entered into keys, in the order addKeys first met them
  db,       \* the db channel's buffer
  dbClosed, \* close(db) was called
  storeDone,\* the store goroutine closed done
  entriesT, \* persisted rows of `entries` (ids)
  valuesT,  \* persisted rows of `values`: a bag, the table has no key
  keysT,    \* persisted rows of `keys`
  rowsMade, \* value rows produced by addKeys so far
  keyFlushes, \* calls of dbkey.store
  ifatal,   \* "no", or the log.Fatal that ended the importer
  \* ---- main.go, the pipeline around the extraction workers
  domains,  \* the buffer of the domains channel: document identifiers
  produced, \* identifiers emitSubpages has sent
  domClosed,\* close(out) of emitSubpages was called
  doc,      \* the identifier an extraction worker took (0: none)
  takes,    \* takes[d]: how many times a range over domains gave out identifier d
  dropped,  \* identifiers whose reader failed
  sent,     \* the records sent on out, in order (a record is named by its document)
  prpc,     \* printer's position
  prdata,   \* the record the printer received last
  written,  \* the records the printer has written
  newlines, \* the newlines the printer has written
  mpc,      \* main goroutine of the extractor: "wait" in wg.Wait, "returned"
            \* from processor.run, "exited"
  \* ---- two runs of addKeys over the same records
  keysA,    \* the dictionary of the first run
  keysB,    \* the dictionary of the second run
  recsRead  \* the records both runs have read so far (their label sets)

fetchVars == <<lru, mux, wpc, job, wres, raced, res, done, served,
               gpc, gurl, ret, refs, piece, emitted, crashed>>

importVars == <<ipc, nlines, data, nextID, keys, vals, assigned, interned, db, dbClosed,
                storeDone, entriesT, valuesT, keysT, rowsMade, keyFlushes, ifatal>>

pipeVars == <<domains, produced, domClosed, doc, takes, dropped, sent,
              prpc, prdata, written, newlines, mpc>>

runVars == <<keysA, keysB, recsRead>>

vars == <<fetchVars, importVars, pipeVars, runVars>>

NoRes == [m |-> NilMimed, err |-> FALSE]
NoServed == [url |-> "none", m |-> NilMimed, err |-> FALSE]

InitFetch ==
  /\ lru = <<>>
  /\ mux = [c \in Callers |-> 0]
  /\ wpc = [w \in Workers |-> "idle"]
  /\ job = [w \in Workers |-> 0]
  /\ wres = [w \in Workers |-> NoRes]
  /\ raced = [w \in Workers |-> "no"]
  /\ res = [c \in Callers |-> NoRes]
  /\ done = [c \in Callers |-> FALSE]
  /\ served = [c \in Callers |-> NoServed]
  /\ gpc = [c \in Callers |-> "render"]
  /\ gurl = [c \in Callers |-> "none"]
  /\ ret = [c \in Callers |-> NoRes]
  /\ refs = [c \in Callers |-> 0]
  /\ piece = [c \in Callers |-> "none"]
  /\ emitted = 0
  /\ crashed = "no"

\* ------------------------------------------------ importer: data and bounds
\* lines in the input file
MaxLines == 3
\* attributes of one record
MaxAttrs == 2
\* the db channel holds 100 rows (importer/main.go:184); the model's is smaller
DbCap == 2

\* A name is a sequence of tokens: " " is whitespace, the others are words.
Labels == {<<"a">>, <<" ", "a", " ">>, <<"b">>, <<"_date">>, <<" ", "_date", " ">>}

\* JSON values: a string, or something that is not a string
Text(t) == <<"string", t>>
NonText == <<"object">>
RawValues == {Text("x"), NonText}

\* the maps json.Unmarshal can give for a line
Records ==
  UNION {[S -> RawValues] : S \in {T \in SUBSET Labels : Cardinality(T) <= MaxAttrs}}
\* a line: one that unmarshals to a map, or one that does not
Lines == {[json |-> "ok", rec |-> r] : r \in Records} \cup {[json |-> "bad", rec |-> <<>>]}
NoData == [rec |-> <<>>, entry |-> [id |-> 0, date |-> "zero"]]

InitImport ==
  /\ ipc = "read"
  /\ nlines = 0
  /\ data = NoData
  /\ nextID = 1
  /\ keys = <<>>
  /\ vals = <<>>
  /\ assigned = <<>>
  /\ interned = <<>>
  /\ db = <<>>
  /\ dbClosed = FALSE
  /\ storeDone = FALSE
  /\ entriesT = <<>>
  /\ valuesT = EmptyBag
  /\ keysT = {}
  /\ rowsMade = 0
  /\ keyFlushes = 0
  /\ ifatal = "no"

Docs == 1..MaxDocs
InitPipeVars ==
  /\ domains = <<>>
  /\ produced = 0
  /\ domClosed = FALSE
  /\ doc = [c \in Callers |-> 0]
  /\ takes = [d \in Docs |-> 0]
  /\ dropped = {}
  /\ sent = <<>>
  /\ prpc = "recv"
  /\ prdata = 0
  /\ written = <<>>
  /\ newlines = 0
  /\ mpc = "wait"

InitRuns ==
  /\ keysA = <<>>
  /\ keysB = <<>>
  /\ recsRead = <<>>

Init == InitFetch /\ InitImport /\ InitPipeVars /\ InitRuns

\* ------------------------------------------------------------- package lru
\* (modelled from the specification: the package is not among the sources)

SeqRemoveAt(s, i) == SubSeq(s, 1, i - 1) \o SubSeq(s, i + 1, Len(s))

LruKeys(cache) == {cache[i].key : i \in 1..Len(cache)}

LruIndex(cache, k) == CHOOSE i \in 1..Len(cache) : cache[i].key = k

\* Get: a hit makes the entry the most recently used one
LruGet(cache, k) ==
  IF k \in LruKeys(cache)
  THEN LET i == LruIndex(cache, k)
       IN [ok |-> TRUE, val |-> cache[i].val,
           cache |-> <<cache[i]>> \o SeqRemoveAt(cache, i)]
  ELSE [ok |-> FALSE, val |-> NilMimed, cache |-> cache]

\* Add, first half: the entry becomes the most recently used one
LruInsert(cache, k, v) ==
  IF k \in LruKeys(cache)
  THEN <<[key |-> k, val |-> v]>> \o SeqRemoveAt(cache, LruIndex(cache, k))
  ELSE <<[key |-> k, val |-> v]>> \o cache

\* Add, second half: over capacity, the least recently used entry goes
LruEvict(cache) ==
  IF Len(cache) > MaxLru THEN SubSeq(cache, 1, Len(cache) - 1) ELSE cache

LruAdd(cache, k, v) == LruEvict(LruInsert(cache, k, v))

\* The cache is not safe for concurrent use.  An Add that overlapped another
\* Add is a data race: it may take effect as if alone, or lose its eviction
\* to the other call (both picked the same oldest entry).  Any overlapping
\* call may also end the process (the runtime's fatal error on concurrent
\* map access): see LruGetDone and LruAddDone.
LruAddOutcomes(cache, k, v, racy) ==
  {LruAdd(cache, k, v)} \cup (IF racy THEN {LruInsert(cache, k, v)} ELSE {})

\* ---------------------------------------------------------------- images.go

\* inside a cache call
Inside(w) == wpc[w] \in {"inGet", "inAdd"}

\* the cache call worker w enters now overlaps the ones already running
EnterCache(w, call) ==
  raced' = [v \in Workers |->
              IF v = w
              THEN IF \E x \in Workers \ {w} : wpc[x] = "inAdd" THEN "add"
                   ELSE IF \E x \in Workers \ {w} : wpc[x] = "inGet" THEN "get"
                   ELSE "no"
              ELSE IF ~Inside(v) THEN raced[v]
                   ELSE IF call = "add" THEN "add"
                   ELSE IF raced[v] = "no" THEN "get" ELSE raced[v]]

\* the closure of get: m, err = i.fetch(url); close(done)
Finish(w, m, err) ==
  LET c == job[w] IN
  /\ res' = [res EXCEPT ![c] = [m |-> m, err |-> err]]
  /\ served' = [served EXCEPT ![c] = [url |-> gurl[c], m |-> m, err |-> err]]
  /\ done' = [done EXCEPT ![c] = TRUE]
  /\ wpc' = [wpc EXCEPT ![w] = "idle"]
  /\ job' = [job EXCEPT ![w] = 0]
  /\ wres' = [wres EXCEPT ![w] = NoRes]

\* get, up to the send on proc: the value receiver copies the imgproc, its
\* mutex included (the original's mutex is never locked, so the copy is free)
CallGet(c, u) ==
  /\ crashed = "no"
  /\ gpc[c] = "render"
  /\ refs[c] < MaxRefs
  /\ emitted < MaxDocs
  /\ gurl' = [gurl EXCEPT ![c] = u]
  /\ mux' = [mux EXCEPT ![c] = 0]
  /\ done' = [done EXCEPT ![c] = FALSE]
  /\ res' = [res EXCEPT ![c] = NoRes]
  /\ gpc' = [gpc EXCEPT ![c] = "send"]
  /\ served' = [served EXCEPT ![c] = NoServed]
  /\ ret' = [ret EXCEPT ![c] = NoRes]
  /\ piece' = [piece EXCEPT ![c] = "none"]
  /\ UNCHANGED <<lru, wpc, job, wres, raced, refs, emitted, crashed>>
  /\ UNCHANGED <<importVars, pipeVars, runVars>>

\* i.proc <- fn meets a worker's range over i.proc (unbuffered channel)
Dispatch(c, w) ==
  /\ crashed = "no"
  /\ gpc[c] = "send"
  /\ wpc[w] = "idle"
  /\ gpc' = [gpc EXCEPT ![c] = "wait"]
  /\ wpc' = [wpc EXCEPT ![w] = "lock1"]
  /\ job' = [job EXCEPT ![w] = c]
  /\ UNCHANGED <<lru, mux, wres, raced, res, done, served, gurl, ret, refs, piece, emitted, crashed>>
  /\ UNCHANGED <<importVars, pipeVars, runVars>>

\* fetch: i.mux.Lock(), then the call of i.lru.Get
LockGet(w) ==
  /\ crashed = "no"
  /\ wpc[w] = "lock1"
  /\ mux[job[w]] = 0
  /\ mux' = [mux EXCEPT ![job[w]] = w]
  /\ wpc' = [wpc EXCEPT ![w] = "inGet"]
  /\ EnterCache(w, "get")
  /\ UNCHANGED <<lru, job, wres, res, done, served, gpc, gurl, ret, refs, piece, emitted, crashed>>
  /\ UNCHANGED <<importVars, pipeVars, runVars>>

\* i.lru.Get returns
LruGetDone(w) ==
  /\ crashed = "no"
  /\ wpc[w] = "inGet"
  /\ LET g == LruGet(lru, gurl[job[w]]) IN
     \/ /\ lru' = g.cache
        /\ wpc' = [wpc EXCEPT ![w] = IF g.ok THEN "hit" ELSE "miss"]
        /\ wres' = [wres EXCEPT ![w] = [m |-> g.val, err |-> FALSE]]
        /\ UNCHANGED crashed
     \/ /\ raced[w] # "no"
        /\ crashed' = "fatal"
        /\ UNCHANGED <<lru, wpc, wres>>
  /\ raced' = [raced EXCEPT ![w] = "no"]
  /\ UNCHANGED <<mux, job, res, done, served, gpc, gurl, ret, refs, piece, emitted>>
  /\ UNCHANGED <<importVars, pipeVars, runVars>>

\* fetch, lines 94-96: unlock and return the cached value
UnlockHit(w) ==
  /\ crashed = "no"
  /\ wpc[w] = "hit"
  /\ mux' = [mux EXCEPT ![job[w]] = 0]
  /\ Finish(w, wres[w].m, FALSE)
  /\ UNCHANGED <<lru, raced, gpc, gurl, ret, refs, piece, emitted, crashed>>
  /\ UNCHANGED <<importVars, pipeVars, runVars>>

\* fetch, line 98: unlock before the network fetch
UnlockMiss(w) ==
  /\ crashed = "no"
  /\ wpc[w] = "miss"
  /\ mux' = [mux EXCEPT ![job[w]] = 0]
  /\ wpc' = [wpc EXCEPT ![w] = "net"]
  /\ UNCHANGED <<lru, job, wres, raced, res, done, served, gpc, gurl, ret, refs, piece, emitted, crashed>>
  /\ UNCHANGED <<importVars, pipeVars, runVars>>

\* fetch, lines 99-106: newMimedFromUrl; only an error leads to the cache
NetFetch(w, ok) ==
  /\ crashed = "no"
  /\ wpc[w] = "net"
  /\ IF ok
     THEN /\ Finish(w, Payload(gurl[job[w]]), FALSE)
     ELSE /\ wpc' = [wpc EXCEPT ![w] = "lock2"]
          /\ wres' = [wres EXCEPT ![w] = [m |-> NilMimed, err |-> TRUE]]
          /\ UNCHANGED <<job, res, done, served>>
  /\ UNCHANGED <<lru, mux, raced, gpc, gurl, ret, refs, piece, emitted, crashed>>
  /\ UNCHANGED <<importVars, pipeVars, runVars>>

\* fetch, lines 102-103: i.mux.Lock(), then the call of i.lru.Add
LockAdd(w) ==
  /\ crashed = "no"
  /\ wpc[w] = "lock2"
  /\ mux[job[w]] = 0
  /\ mux' = [mux EXCEPT ![job[w]] = w]
  /\ wpc' = [wpc EXCEPT ![w] = "inAdd"]
  /\ EnterCache(w, "add")
  /\ UNCHANGED <<lru, job, wres, res, done, served, gpc, gurl, ret, refs, piece, emitted, crashed>>
  /\ UNCHANGED <<importVars, pipeVars, runVars>>

\* i.lru.Add(url, m) returns
LruAddDone(w) ==
  /\ crashed = "no"
  /\ wpc[w] = "inAdd"
  /\ \/ /\ lru' \in LruAddOutcomes(lru, gurl[job[w]], wres[w].m, raced[w] = "add")
        /\ wpc' = [wpc EXCEPT ![w] = "unlock2"]
        /\ UNCHANGED crashed
     \/ /\ raced[w] # "no"
        /\ crashed' = "fatal"
        /\ UNCHANGED <<lru, wpc>>
  /\ raced' = [raced EXCEPT ![w] = "no"]
  /\ UNCHANGED <<mux, job, wres, res, done, served, gpc, gurl, ret, refs, piece, emitted>>
  /\ UNCHANGED <<importVars, pipeVars, runVars>>

\* fetch, lines 104-106: unlock and return m, err
UnlockErr(w) ==
  /\ crashed = "no"
  /\ wpc[w] = "unlock2"
  /\ mux' = [mux EXCEPT ![job[w]] = 0]
  /\ Finish(w, wres[w].m, wres[w].err)
  /\ UNCHANGED <<lru, raced, gpc, gurl, ret, refs, piece, emitted, crashed>>
  /\ UNCHANGED <<importVars, pipeVars, runVars>>

\* get that does not wait for its completion signal
WaitDoneNoBlock(c) ==
  /\ crashed = "no"
  /\ gpc[c] = "wait"
  /\ ret' = [ret EXCEPT ![c] = res[c]]
  /\ gpc' = [gpc EXCEPT ![c] = "got"]
  /\ UNCHANGED <<lru, mux, wpc, job, wres, raced, res, done, served, gurl, refs, piece, emitted, crashed>>
  /\ UNCHANGED <<importVars, pipeVars, runVars>>

\* get, lines 80-81: <-done; return m, err
WaitDone(c) ==
  /\ crashed = "no"
  /\ gpc[c] = "wait"
  /\ done[c]
  /\ ret' = [ret EXCEPT ![c] = res[c]]
  /\ gpc' = [gpc EXCEPT ![c] = "got"]
  /\ UNCHANGED <<lru, mux, wpc, job, wres, raced, res, done, served, gurl, refs, piece, emitted, crashed>>
  /\ UNCHANGED <<importVars, pipeVars, runVars>>

\* ------------------------------------------------------------------ main.go

\* renderText, case "img", and the write of `before`: the marker on an
\* error; else imageTo.WriteTo, which reads img.mime (a nil img panics)
RenderImg(c) ==
  /\ crashed = "no"
  /\ gpc[c] = "got"
  /\ IF ret[c].err
     THEN /\ piece' = [piece EXCEPT ![c] = "unavailable"]
          /\ UNCHANGED crashed
     ELSE IF ret[c].m = NilMimed
     THEN /\ piece' = [piece EXCEPT ![c] = "none"]
          /\ crashed' = "panic"
     ELSE /\ piece' = [piece EXCEPT ![c] = "datauri"]
          /\ UNCHANGED crashed
  /\ refs' = [refs EXCEPT ![c] = refs[c] + 1]
  /\ gpc' = [gpc EXCEPT ![c] = "render"]
  /\ UNCHANGED <<lru, mux, wpc, job, wres, raced, res, done, served, gurl, ret, emitted>>
  /\ UNCHANGED <<importVars, pipeVars, runVars>>

\* process, lines 272-277: the page is rendered; out <- data
Emit(c) ==
  /\ crashed = "no"
  /\ gpc[c] = "render"
  /\ emitted < MaxDocs
  /\ emitted' = emitted + 1
  /\ refs' = [refs EXCEPT ![c] = 0]
  /\ piece' = [piece EXCEPT ![c] = "none"]
  /\ ret' = [ret EXCEPT ![c] = NoRes]
  /\ UNCHANGED <<lru, mux, wpc, job, wres, raced, res, done, served, gpc, gurl, crashed>>
  /\ UNCHANGED <<importVars, pipeVars, runVars>>

NextFetch ==
  \/ \E c \in Callers, u \in URLs : CallGet(c, u)
  \/ \E c \in Callers, w \in Workers : Dispatch(c, w)
  \/ \E w \in Workers : LockGet(w)
  \/ \E w \in Workers : LruGetDone(w)
  \/ \E w \in Workers : UnlockHit(w)
  \/ \E w \in Workers : UnlockMiss(w)
  \/ \E w \in Workers, ok \in BOOLEAN : NetFetch(w, ok)
  \/ \E w \in Workers : LockAdd(w)
  \/ \E w \in Workers : LruAddDone(w)
  \/ \E w \in Workers : UnlockErr(w)
  \/ \E c \in Callers : WaitDone(c)
  \/ \E c \in Callers : RenderImg(c)
  \/ \E c \in Callers : Emit(c)

SpecFetch == Init /\ [][NextFetch]_vars

\* ------------------------------------------------- main.go: the pipeline
\* producer (emitSubpages) -> domains -> extraction workers (process) -> out
\* -> printer, with main waiting in processor.run

\* the process is running: no panic or log.Fatal, and main has not returned
Alive == crashed = "no" /\ mpc # "exited"

\* what a page holds under .last-modified a: no such node, a text that
\* parses as "02 Jan 2006", a text that does not, or a node with no child
DateKinds == {"none", "parses", "unparsable", "empty"}

\* emitSubpages, lines 34-40: one link's identifier is sent on out (the
\* domains channel holds 2048, so the send does not block here)
Produce ==
  /\ Alive
  /\ ~domClosed
  /\ produced < MaxDocs
  /\ produced' = produced + 1
  /\ domains' = Append(domains, produced + 1)
  /\ UNCHANGED <<domClosed, doc, takes, dropped, sent, prpc, prdata, written,
                 newlines, mpc>>
  /\ UNCHANGED <<fetchVars, importVars, runVars>>

\* emitSubpages, line 41: close(out)
ProducerClose ==
  /\ Alive
  /\ ~domClosed
  /\ domClosed' = TRUE
  /\ UNCHANGED <<domains, produced, doc, takes, dropped, sent, prpc, prdata,
                 written, newlines, mpc>>
  /\ UNCHANGED <<fetchVars, importVars, runVars>>

\* main, lines 302-308: the file does not open, or emitSubpages cannot query
\* it: log.Fatalf
ProducerFatal ==
  /\ Alive
  /\ ~domClosed
  /\ produced = 0
  /\ crashed' = "producer"
  /\ UNCHANGED <<lru, mux, wpc, job, wres, raced, res, done, served, gpc, gurl, ret,
                 refs, piece, emitted>>
  /\ UNCHANGED <<pipeVars, importVars, runVars>>

\* a receive that leaves the identifier on the channel
TakeDocLeaveIt(c) ==
  /\ Alive
  /\ gpc[c] = "recv"
  /\ domains # <<>>
  /\ doc' = [doc EXCEPT ![c] = Head(domains)]
  /\ takes' = [takes EXCEPT ![Head(domains)] = @ + 1]
  /\ gpc' = [gpc EXCEPT ![c] = "page"]
  /\ UNCHANGED <<lru, mux, wpc, job, wres, raced, res, done, served, gurl, ret, refs,
                 piece, emitted, crashed>>
  /\ UNCHANGED <<domains, produced, domClosed, dropped, sent, prpc, prdata, written,
                 newlines, mpc>>
  /\ UNCHANGED <<importVars, runVars>>

\* process, line 257: for url := range in gives the worker an identifier
TakeDoc(c) ==
  /\ Alive
  /\ gpc[c] = "recv"
  /\ domains # <<>>
  /\ doc' = [doc EXCEPT ![c] = Head(domains)]
  /\ domains' = Tail(domains)
  /\ takes' = [takes EXCEPT ![Head(domains)] = @ + 1]
  /\ gpc' = [gpc EXCEPT ![c] = "page"]
  /\ UNCHANGED <<lru, mux, wpc, job, wres, raced, res, done, served, gurl, ret, refs,
                 piece, emitted, crashed>>
  /\ UNCHANGED <<produced, domClosed, dropped, sent, prpc, prdata, written,
                 newlines, mpc>>
  /\ UNCHANGED <<importVars, runVars>>

\* processor.metadata on the modification date: node.FirstChild.Data is a
\* nil dereference on a node with no child; `date, err := time.Parse(...)`
\* declares the closure's own err, so the err metadata returns stays nil;
\* vals["_date"] is set only when the text parses
metadata(dk) ==
  [panic |-> dk = "empty", err |-> FALSE, hasDate |-> dk = "parses"]

\* a process whose reader failure ends the run (log.Fatalf for log.Printf)
ReadPageFatal(c, ok, dk) ==
  /\ Alive
  /\ gpc[c] = "page"
  /\ IF ~ok
     THEN /\ dropped' = dropped \cup {doc[c]}
          /\ crashed' = "reader"
          /\ UNCHANGED <<doc, gpc>>
     ELSE IF metadata(dk).panic
     THEN /\ crashed' = "date"
          /\ UNCHANGED <<dropped, doc, gpc>>
     ELSE /\ gpc' = [gpc EXCEPT ![c] = "render"]
          /\ UNCHANGED <<dropped, doc, crashed>>
  /\ UNCHANGED <<lru, mux, wpc, job, wres, raced, res, done, served, gurl, ret, refs,
                 piece, emitted>>
  /\ UNCHANGED <<domains, produced, domClosed, takes, sent, prpc, prdata, written,
                 newlines, mpc>>
  /\ UNCHANGED <<importVars, runVars>>

\* process, lines 263-271, and the head of processPage: the reader fails
\* (log.Printf; continue), or the page is read and attributes calls
\* metadata (an error of which would end in log.Fatalf, line 274)
ReadPage(c, ok, dk) ==
  /\ Alive
  /\ gpc[c] = "page"
  /\ IF ~ok
     THEN /\ dropped' = dropped \cup {doc[c]}
          /\ doc' = [doc EXCEPT ![c] = 0]
          /\ gpc' = [gpc EXCEPT ![c] = "recv"]
          /\ UNCHANGED crashed
     ELSE IF metadata(dk).panic
     THEN /\ crashed' = "date"
          /\ UNCHANGED <<dropped, doc, gpc>>
     ELSE IF metadata(dk).err
     THEN /\ crashed' = "extract"
          /\ UNCHANGED <<dropped, doc, gpc>>
     ELSE /\ gpc' = [gpc EXCEPT ![c] = "render"]
          /\ UNCHANGED <<dropped, doc, crashed>>
  /\ UNCHANGED <<lru, mux, wpc, job, wres, raced, res, done, served, gurl, ret, refs,
                 piece, emitted>>
  /\ UNCHANGED <<domains, produced, domClosed, takes, sent, prpc, prdata, written,
                 newlines, mpc>>
  /\ UNCHANGED <<importVars, runVars>>

\* process, lines 272-277: processPage returns the record's JSON (the
\* locals of renderText and of its last get are gone), and the worker stands
\* at out <- data
FinishPage(c) ==
  /\ Alive
  /\ gpc[c] = "render"
  /\ doc[c] # 0
  /\ gpc' = [gpc EXCEPT ![c] = "out"]
  /\ refs' = [refs EXCEPT ![c] = 0]
  /\ piece' = [piece EXCEPT ![c] = "none"]
  /\ ret' = [ret EXCEPT ![c] = NoRes]
  /\ gurl' = [gurl EXCEPT ![c] = "none"]
  /\ mux' = [mux EXCEPT ![c] = 0]
  /\ res' = [res EXCEPT ![c] = NoRes]
  /\ done' = [done EXCEPT ![c] = FALSE]
  /\ served' = [served EXCEPT ![c] = NoServed]
  /\ UNCHANGED <<lru, wpc, job, wres, raced, emitted, crashed>>
  /\ UNCHANGED <<pipeVars, importVars, runVars>>

\* process, line 277, and printer, line 283: out is unbuffered, the send
\* meets the printer's receive
SendOut(c) ==
  /\ Alive
  /\ gpc[c] = "out"
  /\ prpc = "recv"
  /\ sent' = Append(sent, doc[c])
  /\ prdata' = doc[c]
  /\ prpc' = "data"
  /\ emitted' = emitted + 1
  /\ doc' = [doc EXCEPT ![c] = 0]
  /\ gpc' = [gpc EXCEPT ![c] = "recv"]
  /\ UNCHANGED <<lru, mux, wpc, job, wres, raced, res, done, served, gurl, ret, refs,
                 piece, crashed>>
  /\ UNCHANGED <<domains, produced, domClosed, takes, dropped, written, newlines, mpc>>
  /\ UNCHANGED <<importVars, runVars>>

\* process, lines 257 and 279: the channel is closed and empty, the loop
\* ends; wg.Done()
WorkerDone(c) ==
  /\ Alive
  /\ gpc[c] = "recv"
  /\ domains = <<>>
  /\ domClosed
  /\ gpc' = [gpc EXCEPT ![c] = "exited"]
  /\ UNCHANGED <<lru, mux, wpc, job, wres, raced, res, done, served, gurl, ret, refs,
                 piece, emitted, crashed>>
  /\ UNCHANGED <<pipeVars, importVars, runVars>>

\* printer, lines 284-286: w.Write(data), or log.Fatalf
PrinterWrite(ok) ==
  /\ Alive
  /\ prpc = "data"
  /\ IF ok
     THEN /\ written' = Append(written, prdata)
          /\ prpc' = "nl"
          /\ UNCHANGED crashed
     ELSE /\ crashed' = "printer"
          /\ UNCHANGED <<written, prpc>>
  /\ UNCHANGED <<lru, mux, wpc, job, wres, raced, res, done, served, gpc, gurl, ret,
                 refs, piece, emitted>>
  /\ UNCHANGED <<domains, produced, domClosed, doc, takes, dropped, sent,
                 prdata, newlines, mpc>>
  /\ UNCHANGED <<importVars, runVars>>

\* printer, lines 287-289: w.Write([]byte("\n")), or log.Fatalf
PrinterNewline(ok) ==
  /\ Alive
  /\ prpc = "nl"
  /\ IF ok
     THEN /\ newlines' = newlines + 1
          /\ prpc' = "recv"
          /\ UNCHANGED crashed
     ELSE /\ crashed' = "printer"
          /\ UNCHANGED <<newlines, prpc>>
  /\ UNCHANGED <<lru, mux, wpc, job, wres, raced, res, done, served, gpc, gurl, ret,
                 refs, piece, emitted>>
  /\ UNCHANGED <<domains, produced, domClosed, doc, takes, dropped, sent,
                 prdata, written, mpc>>
  /\ UNCHANGED <<importVars, runVars>>

\* processor.run, line 83: wg.Wait() returns when every worker called Done
RunReturn ==
  /\ Alive
  /\ mpc = "wait"
  /\ \A c \in Callers : gpc[c] = "exited"
  /\ mpc' = "returned"
  /\ UNCHANGED <<domains, produced, domClosed, doc, takes, dropped, sent,
                 prpc, prdata, written, newlines>>
  /\ UNCHANGED <<fetchVars, importVars, runVars>>

\* main, line 321: main returns after processor.run, and the process ends
\* with the goroutines it still has
MainReturn ==
  /\ Alive
  /\ mpc = "returned"
  /\ mpc' = "exited"
  /\ UNCHANGED <<domains, produced, domClosed, doc, takes, dropped, sent,
                 prpc, prdata, written, newlines>>
  /\ UNCHANGED <<fetchVars, importVars, runVars>>

\* the extractor at its start: every extraction worker is at its range
InitPipe ==
  /\ lru = <<>>
  /\ mux = [c \in Callers |-> 0]
  /\ wpc = [w \in Workers |-> "idle"]
  /\ job = [w \in Workers |-> 0]
  /\ wres = [w \in Workers |-> NoRes]
  /\ raced = [w \in Workers |-> "no"]
  /\ res = [c \in Callers |-> NoRes]
  /\ done = [c \in Callers |-> FALSE]
  /\ served = [c \in Callers |-> NoServed]
  /\ gpc = [c \in Callers |-> "recv"]
  /\ gurl = [c \in Callers |-> "none"]
  /\ ret = [c \in Callers |-> NoRes]
  /\ refs = [c \in Callers |-> 0]
  /\ piece = [c \in Callers |-> "none"]
  /\ emitted = 0
  /\ crashed = "no"
  /\ InitImport /\ InitPipeVars /\ InitRuns

NextPipe ==
  \/ Produce
  \/ ProducerClose
  \/ ProducerFatal
  \/ \E c \in Callers : TakeDoc(c)
  \/ \E c \in Callers, ok \in BOOLEAN, dk \in DateKinds : ReadPage(c, ok, dk)
  \/ \E c \in Callers, u \in URLs : CallGet(c, u)
  \/ \E c \in Callers, w \in Workers : Dispatch(c, w)
  \/ \E w \in Workers : LockGet(w)
  \/ \E w \in Workers : LruGetDone(w)
  \/ \E w \in Workers : UnlockHit(w)
  \/ \E w \in Workers : UnlockMiss(w)
  \/ \E w \in Workers, ok \in BOOLEAN : NetFetch(w, ok)
  \/ \E w \in Workers : LockAdd(w)
  \/ \E w \in Workers : LruAddDone(w)
  \/ \E w \in Workers : UnlockErr(w)
  \/ \E c \in Callers : WaitDone(c)
  \/ \E c \in Callers : RenderImg(c)
  \/ \E c \in Callers : FinishPage(c)
  \/ \E c \in Callers : SendOut(c)
  \/ \E c \in Callers : WorkerDone(c)
  \/ \E ok \in BOOLEAN : PrinterWrite(ok)
  \/ \E ok \in BOOLEAN : PrinterNewline(ok)
  \/ RunReturn
  \/ MainReturn

SpecPipe == InitPipe /\ [][NextPipe]_vars

\* --------------------------------------------------------- importer/main.go

\* strings.TrimSpace
RECURSIVE TrimLeft(_)
TrimLeft(s) == IF s # <<>> /\ Head(s) = " " THEN TrimLeft(Tail(s)) ELSE s

RECURSIVE TrimRight(_)
TrimRight(s) ==
  IF s # <<>> /\ s[Len(s)] = " " THEN TrimRight(SubSeq(s, 1, Len(s) - 1)) ELSE s

TrimSpace(s) == TrimRight(TrimLeft(s))

\* the names addKeys skips
Reserved == {<<"_author">>, <<"_title">>, <<"_date">>}

\* time.Parse(time.RFC3339, d) succeeds
IsRFC3339(t) == t \in {"2016-05-04T00:00:00Z"}

IsText(v) == v[1] = "string"

\* entryGen.parse: the date stays the zero time unless _date is a string
\* that parses
parse(rec, id) ==
  [id |-> id,
   date |-> IF <<"_date">> \in DOMAIN rec /\ IsText(rec[<<"_date">>])
               /\ IsRFC3339(rec[<<"_date">>][2])
            THEN rec[<<"_date">>][2] ELSE "zero"]

\* entryGen.generate that forgets to advance the counter
generateNoIncrement(g, rec) == [e |-> parse(rec, g), nextID |-> g]

\* entryGen.generate: the entry takes nextID, and nextID advances
generate(g, rec) == [e |-> parse(rec, g), nextID |-> g + 1]

\* the orders in which `for k := range data` may visit the map
Orders(S) ==
  {o \in [1..Cardinality(S) -> S] : \A i, j \in 1..Cardinality(S) : o[i] = o[j] => i = j}

\* one pass of addKeys' loop body that looks the raw label up, untrimmed
addKeyNoTrim(ks, rows, rec, k) ==
  IF k \in Reserved THEN [ks |-> ks, rows |-> rows]
  ELSE LET key == k
           id == IF key \in DOMAIN ks THEN ks[key] ELSE Cardinality(DOMAIN ks) + 1
           d == IF IsText(rec[k]) THEN rec[k][2] ELSE ""
       IN [ks |-> IF key \in DOMAIN ks THEN ks ELSE ks @@ (key :> id),
           rows |-> Append(rows, [keyId |-> id, data |-> d])]

\* one pass of addKeys' loop body that rejects a value that is not a string
addKeyTextOnly(ks, rows, rec, k) ==
  IF k \in Reserved \/ ~IsText(rec[k]) THEN [ks |-> ks, rows |-> rows]
  ELSE LET key == TrimSpace(k)
           id == IF key \in DOMAIN ks THEN ks[key] ELSE Cardinality(DOMAIN ks) + 1
       IN [ks |-> IF key \in DOMAIN ks THEN ks ELSE ks @@ (key :> id),
           rows |-> Append(rows, [keyId |-> id, data |-> rec[k][2]])]

\* addKeys, lines 71-87: one pass of the loop body
addKey(ks, rows, rec, k) ==
  IF k \in Reserved THEN [ks |-> ks, rows |-> rows]
  ELSE LET key == TrimSpace(k)
           id == IF key \in DOMAIN ks THEN ks[key] ELSE Cardinality(DOMAIN ks) + 1
           d == IF IsText(rec[k]) THEN rec[k][2] ELSE ""
       IN [ks |-> IF key \in DOMAIN ks THEN ks ELSE ks @@ (key :> id),
           rows |-> Append(rows, [keyId |-> id, data |-> d])]

\* addKeys: the loop over the record's labels in the order o
RECURSIVE addKeysFrom(_, _, _, _)
addKeysFrom(ks, rows, rec, o) ==
  IF o = <<>> THEN [ks |-> ks, rows |-> rows]
  ELSE LET r == addKey(ks, rows, rec, Head(o))
       IN addKeysFrom(r.ks, r.rows, rec, Tail(o))

addKeys(ks, rec, o) == addKeysFrom(ks, <<>>, rec, o)

\* the names of `new` in the order in which the loop over o first looks
\* them up (a label the loop skips looks nothing up)
RECURSIVE firstSeen(_, _)
firstSeen(new, o) ==
  IF o = <<>> THEN <<>>
  ELSE LET n == TrimSpace(Head(o))
       IN IF Head(o) \notin Reserved /\ n \in new
          THEN <<n>> \o firstSeen(new \ {n}, Tail(o))
          ELSE firstSeen(new, Tail(o))

\* a log.Fatal that logs and lets the importer go on
RunningAfterFatal == TRUE

\* log.Fatal ends the process: nothing runs after it
Running == ifatal = "no"

\* main, lines 193-205: a line is read; one that does not unmarshal is
\* skipped, the others get their entry from eg.generate
ReadLine(line) ==
  /\ Running
  /\ ipc = "read"
  /\ nlines < MaxLines
  /\ nlines' = nlines + 1
  /\ IF line.json = "bad"
     THEN UNCHANGED <<ipc, data, nextID, assigned>>
     ELSE LET g == generate(nextID, line.rec) IN
          /\ data' = [rec |-> line.rec, entry |-> g.e]
          /\ nextID' = g.nextID
          /\ assigned' = Append(assigned, g.e.id)
          /\ ipc' = "sendEntry"
  /\ UNCHANGED <<keys, vals, interned, db, dbClosed, storeDone, entriesT, valuesT,
                 keysT, rowsMade, keyFlushes, ifatal>>
  /\ UNCHANGED <<fetchVars, pipeVars, runVars>>

\* main, lines 193-198: a read error other than io.EOF
ReadError ==
  /\ Running
  /\ ipc = "read"
  /\ ifatal' = "read"
  /\ UNCHANGED <<ipc, nlines, data, nextID, keys, vals, assigned, interned, db, dbClosed,
                 storeDone, entriesT, valuesT, keysT, rowsMade, keyFlushes>>
  /\ UNCHANGED <<fetchVars, pipeVars, runVars>>

\* main, lines 206-207: db <- entry, then vals := keys.addKeys(data)
SendEntry(o) ==
  /\ Running
  /\ ipc = "sendEntry"
  /\ Len(db) < DbCap
  /\ o \in Orders(DOMAIN data.rec)
  /\ LET r == addKeys(keys, data.rec, o) IN
     /\ db' = Append(db, [type |-> "entry", e |-> data.entry])
     /\ keys' = r.ks
     /\ vals' = r.rows
     /\ rowsMade' = rowsMade + Len(r.rows)
     /\ interned' = interned \o firstSeen(DOMAIN r.ks \ DOMAIN keys, o)
  /\ ipc' = "sendVals"
  /\ UNCHANGED <<nlines, data, nextID, assigned, dbClosed, storeDone, entriesT,
                 valuesT, keysT, keyFlushes, ifatal>>
  /\ UNCHANGED <<fetchVars, pipeVars, runVars>>

\* a loop that also sends the key dictionary after every record
SendValsAndKeys ==
  /\ Running
  /\ ipc = "sendVals"
  /\ Len(db) + 1 < DbCap
  /\ db' = db \o <<[type |-> "values", rows |-> vals], [type |-> "keys"]>>
  /\ vals' = <<>>
  /\ data' = NoData
  /\ ipc' = "read"
  /\ UNCHANGED <<nlines, nextID, keys, assigned, interned, dbClosed, storeDone, entriesT,
                 valuesT, keysT, rowsMade, keyFlushes, ifatal>>
  /\ UNCHANGED <<fetchVars, pipeVars, runVars>>

\* main, line 208: db <- vals
SendVals ==
  /\ Running
  /\ ipc = "sendVals"
  /\ Len(db) < DbCap
  /\ db' = Append(db, [type |-> "values", rows |-> vals])
  /\ vals' = <<>>
  /\ data' = NoData
  /\ ipc' = "read"
  /\ UNCHANGED <<nlines, nextID, keys, assigned, interned, dbClosed, storeDone, entriesT,
                 valuesT, keysT, rowsMade, keyFlushes, ifatal>>
  /\ UNCHANGED <<fetchVars, pipeVars, runVars>>

\* main, lines 195-196: io.EOF ends the loop
ReadEOF ==
  /\ Running
  /\ ipc = "read"
  /\ ipc' = "sendKeys"
  /\ UNCHANGED <<nlines, data, nextID, keys, vals, assigned, interned, db, dbClosed,
                 storeDone, entriesT, valuesT, keysT, rowsMade, keyFlushes, ifatal>>
  /\ UNCHANGED <<fetchVars, pipeVars, runVars>>

\* a main that hands the dictionary over and then goes back to its loop
SendKeysAndReadOn ==
  /\ Running
  /\ ipc = "sendKeys"
  /\ Len(db) < DbCap
  /\ db' = Append(db, [type |-> "keys"])
  /\ ipc' = "read"
  /\ UNCHANGED <<nlines, data, nextID, keys, vals, assigned, interned, dbClosed, storeDone,
                 entriesT, valuesT, keysT, rowsMade, keyFlushes, ifatal>>
  /\ UNCHANGED <<fetchVars, pipeVars, runVars>>

\* main, lines 210-211: db <- keys; close(db).  The map travels by
\* reference: the message names the dictionary, it does not copy it.
SendKeys ==
  /\ Running
  /\ ipc = "sendKeys"
  /\ Len(db) < DbCap
  /\ db' = Append(db, [type |-> "keys"])
  /\ dbClosed' = TRUE
  /\ ipc' = "wait"
  /\ UNCHANGED <<nlines, data, nextID, keys, vals, assigned, interned, storeDone, entriesT,
                 valuesT, keysT, rowsMade, keyFlushes, ifatal>>
  /\ UNCHANGED <<fetchVars, pipeVars, runVars>>

\* main, line 212: <-done, and main returns
MainExit ==
  /\ Running
  /\ ipc = "wait"
  /\ storeDone
  /\ ipc' = "exit"
  /\ UNCHANGED <<nlines, data, nextID, keys, vals, assigned, interned, db, dbClosed,
                 storeDone, entriesT, valuesT, keysT, rowsMade, keyFlushes, ifatal>>
  /\ UNCHANGED <<fetchVars, pipeVars, runVars>>

\* the rows of a sequence, with their multiplicities
BagOfSeq(q) ==
  [r \in {q[i] : i \in 1..Len(q)} |-> Cardinality({i \in 1..Len(q) : q[i] = r})]

\* the rows of the key dictionary
KeyRows(ks) == {[id |-> ks[k], name |-> k] : k \in DOMAIN ks}

\* dbconn.store, lines 163-167, with dbentry.store: one Exec
StoreEntry(ok) ==
  /\ Running
  /\ db # <<>>
  /\ Head(db).type = "entry"
  /\ db' = Tail(db)
  /\ IF ok
     THEN entriesT' = Append(entriesT, Head(db).e) /\ UNCHANGED ifatal
     ELSE ifatal' = "store" /\ UNCHANGED entriesT
  /\ UNCHANGED <<ipc, nlines, data, nextID, keys, vals, assigned, interned, dbClosed,
                 storeDone, valuesT, keysT, rowsMade, keyFlushes>>
  /\ UNCHANGED <<fetchVars, pipeVars, runVars>>

\* dbconn.store with dbvalues.store: the first n rows are stored; a failing
\* Exec of row n+1 is fatal
StoreValues(n) ==
  /\ Running
  /\ db # <<>>
  /\ Head(db).type = "values"
  /\ n \in 0..Len(Head(db).rows)
  /\ db' = Tail(db)
  /\ valuesT' = valuesT (+) BagOfSeq(SubSeq(Head(db).rows, 1, n))
  /\ ifatal' = IF n < Len(Head(db).rows) THEN "store" ELSE "no"
  /\ UNCHANGED <<ipc, nlines, data, nextID, keys, vals, assigned, interned, dbClosed,
                 storeDone, entriesT, keysT, rowsMade, keyFlushes>>
  /\ UNCHANGED <<fetchVars, pipeVars, runVars>>

\* dbconn.store with dbkey.store: the map is ranged over in any order, the
\* rows in S are stored; a failing Exec of one more is fatal
StoreKeys(S) ==
  /\ Running
  /\ db # <<>>
  /\ Head(db).type = "keys"
  /\ S \subseteq KeyRows(keys)
  /\ db' = Tail(db)
  /\ keysT' = keysT \cup S
  /\ keyFlushes' = keyFlushes + 1
  /\ ifatal' = IF S # KeyRows(keys) THEN "store" ELSE "no"
  /\ UNCHANGED <<ipc, nlines, data, nextID, keys, vals, assigned, interned, dbClosed,
                 storeDone, entriesT, valuesT, rowsMade>>
  /\ UNCHANGED <<fetchVars, pipeVars, runVars>>

\* dbconn.store, lines 168-169: the channel is closed and drained
StoreClose ==
  /\ Running
  /\ db = <<>>
  /\ dbClosed
  /\ ~storeDone
  /\ storeDone' = TRUE
  /\ UNCHANGED <<ipc, nlines, data, nextID, keys, vals, assigned, interned, db, dbClosed,
                 entriesT, valuesT, keysT, rowsMade, keyFlushes, ifatal>>
  /\ UNCHANGED <<fetchVars, pipeVars, runVars>>

NextImport ==
  \/ \E line \in Lines : ReadLine(line)
  \/ ReadError
  \/ \E o \in Orders(DOMAIN data.rec) : SendEntry(o)
  \/ SendVals
  \/ ReadEOF
  \/ SendKeys
  \/ MainExit
  \/ \E ok \in BOOLEAN : StoreEntry(ok)
  \/ \E n \in 0..MaxAttrs : StoreValues(n)
  \/ \E S \in SUBSET KeyRows(keys) : StoreKeys(S)
  \/ StoreClose

SpecImport == Init /\ [][NextImport]_vars

\* ------------------------------------------ two runs over the same records
\* main, lines 205-207, in two runs of the importer that read the same
\* file: both take the same record, and each ranges over the map in the
\* order its own run gives it
BothRunsTake(rec, oA, oB) ==
  /\ Len(recsRead) < MaxLines
  /\ oA \in Orders(DOMAIN rec)
  /\ oB \in Orders(DOMAIN rec)
  /\ keysA' = addKeys(keysA, rec, oA).ks
  /\ keysB' = addKeys(keysB, rec, oB).ks
  /\ recsRead' = Append(recsRead, DOMAIN rec)
  /\ UNCHANGED <<fetchVars, importVars, pipeVars>>

NextRuns ==
  \E rec \in Records : \E oA \in Orders(DOMAIN rec), oB \in Orders(DOMAIN rec) :
    BothRunsTake(rec, oA, oB)

SpecRuns == Init /\ [][NextRuns]_vars

\* ------------------------------------------------------- claims, SpecFetch

\* C1: failures are never cached: the cache holds no entry made by a failed
\* fetch (the nil mimed that comes with an error), so a later fetch of the
\* same key misses and goes to the network again.
C1_FailuresNeverCached ==
  \A i \in 1..Len(lru) : lru[i].val # NilMimed

\* C2: successful fetches are cached: when fetch returns from a miss whose
\* network fetch succeeded, the cache holds the payload under the key.
C2_SuccessCached ==
  [][\A w \in Workers :
       (wpc[w] = "net" /\ wpc'[w] = "idle")
         => \E i \in 1..Len(lru') :
              /\ lru'[i].key = gurl[job[w]]
              /\ lru'[i].val = Payload(gurl[job[w]])]_vars

\* C3: every cache access is under one and the same mutex: no two fetch
\* workers are inside a cache Get or Add at the same time.
C3_MutualExclusion ==
  \A v \in Workers, w \in Workers : v # w => ~(Inside(v) /\ Inside(w))

C5_GetSynchronous ==
  \A c \in Callers :
    gpc[c] = "got" =>
      /\ done[c]
      /\ \A w \in Workers : job[w] # c
      /\ served[c].url = gurl[c]
      /\ ret[c] = [m |-> served[c].m, err |-> served[c].err]
      /\ ret[c].m \in {NilMimed, Payload(gurl[c])}

\* C5's case: a get has returned its own payload while another caller's
\* request for another key is still being served
C5_Witness ==
  \E c \in Callers, d \in Callers :
    /\ c # d
    /\ gpc[c] = "got" /\ ret[c].m = Payload(gurl[c])
    /\ gpc[d] = "wait" /\ ~done[d] /\ gurl[d] # gurl[c]

\* C10: an image whose fetch fails degrades and never crashes: rendering an
\* image reference never panics, and a reference whose get returned an error
\* is rendered as the unavailability marker.
C10_DegradeNeverCrash ==
  /\ crashed # "panic"
  /\ \A c \in Callers :
       (gpc[c] = "render" /\ ret[c].err) => piece[c] = "unavailable"

\* ------------------------------------------------------ claims, SpecImport

\* the labels of a record that addKeys interns
Dynamic(rec) == DOMAIN rec \ Reserved

\* C6: interning keeps the dictionary a bijection onto 1..size: the names
\* are trimmed, their ids are exactly 1..number of names, every value row of
\* a record carries the id of its label's trimmed name, and the i-th name
\* ever interned has the id i for good (a new name gets size+1, and no id
\* changes afterwards).
C6_KeyBijection ==
  /\ {keys[k] : k \in DOMAIN keys} = 1..Cardinality(DOMAIN keys)
  /\ \A k \in DOMAIN keys : TrimSpace(k) = k
  /\ Len(interned) = Cardinality(DOMAIN keys)
  /\ \A i \in 1..Len(interned) : interned[i] \in DOMAIN keys /\ keys[interned[i]] = i
  /\ ipc = "sendVals" =>
       /\ \A k \in Dynamic(data.rec) : TrimSpace(k) \in DOMAIN keys
       /\ {vals[i].keyId : i \in 1..Len(vals)}
            = {keys[TrimSpace(k)] : k \in Dynamic(data.rec)}

\* C6's case: with two names interned by earlier records, a record whose
\* label is " a " gets the id the name a already had
C6_Witness ==
  /\ ipc = "sendVals"
  /\ nlines = 3
  /\ DOMAIN data.rec = {<<" ", "a", " ">>}
  /\ DOMAIN keys = {<<"a">>, <<"b">>}
  /\ keys[<<"a">>] = 2
  /\ vals = <<[keyId |-> 2, data |-> "x"]>>

\* C7: reserved metadata names are never interned: neither the dictionary
\* nor the persisted keys relation holds _author, _title or _date.
C7_ReservedNotInterned ==
  /\ DOMAIN keys \cap Reserved = {}
  /\ \A r \in keysT : r.name \notin Reserved

\* C8: entry ids are gapless and unique: the i-th generate call returns i,
\* lines that do not parse consume no id, and the persisted entry rows carry
\* these ids.
C8_GaplessIDs ==
  /\ \A i \in 1..Len(assigned) : assigned[i] = i
  /\ nextID = Len(assigned) + 1
  /\ \A i \in 1..Len(entriesT) : entriesT[i].id = i

\* C8's case: two records were given ids and persisted, one line was skipped
C8_Witness ==
  /\ nlines = 3
  /\ Len(assigned) = 2
  /\ Len(entriesT) = 2

\* C9: the keys relation is flushed once and last: dbkey.store runs at most
\* once, only after main has left its loop (so nothing is interned after it)
\* and every entry row and value row is persisted; without a fatal error the
\* persisted keys relation is the whole dictionary, in the state it keeps.
C9_KeysFlushedOnceLast ==
  /\ keyFlushes <= 1
  /\ keyFlushes = 1 =>
       /\ ipc \in {"wait", "exit"}
       /\ db = <<>>
       /\ Len(entriesT) = Len(assigned)
       /\ BagCardinality(valuesT) = rowsMade
       /\ ifatal = "no" => keysT = KeyRows(keys) /\ DOMAIN keys = {interned[i] : i \in 1..Len(interned)}

\* C9's case: a run of two records and two names ended with the flush
C9_Witness ==
  /\ keyFlushes = 1
  /\ ifatal = "no"
  /\ storeDone
  /\ Len(entriesT) = 2
  /\ Cardinality(keysT) = 2
  /\ BagCardinality(valuesT) >= 2

\* C13: a persistence failure is fatal and stops all writing: the step in
\* which a row's store fails persists, of a values message, only the rows
\* before the failing one, and after the failure no table, and nothing else
\* of the importer, changes any more: the rows still queued on the db
\* channel stay there and main sends no further row.
C13_StoreFailureStopsWriting ==
  /\ [][(ifatal = "no" /\ ifatal' = "store" /\ Head(db).type = "values") =>
          /\ entriesT' = entriesT /\ keysT' = keysT
          /\ \E n \in 0..(Len(Head(db).rows) - 1) :
               valuesT' = valuesT (+) BagOfSeq(SubSeq(Head(db).rows, 1, n))]_vars
  /\ [][ifatal = "store" => UNCHANGED importVars]_vars

\* C13's case: the second of a record's two value rows failed while the
\* next record's entry row was queued; one entry row and one value row are
\* persisted, the queued row is not
C13_Witness ==
  /\ ifatal = "store"
  /\ Len(entriesT) = 1
  /\ BagCardinality(valuesT) = 1
  /\ rowsMade >= 2
  /\ Len(db) = 1
  /\ Head(db).type = "entry"

\* the value row the claim C15 describes for the label k of a record
RowOf(rec, k) ==
  [keyId |-> keys[TrimSpace(k)], data |-> IF IsText(rec[k]) THEN rec[k][2] ELSE ""]

\* C15: addKeys returns exactly one value row per attribute of the record
\* whose label is not a reserved name: the row carries the id the dictionary
\* holds for the label's trimmed name, and the attribute's text, or "" when
\* the raw value is not text; and every persisted value row's key id is in
\* the dictionary, and in the persisted keys relation once that is flushed
\* without a failure.
C15_OneRowPerAttribute ==
  /\ ipc = "sendVals" =>
       /\ Len(vals) = Cardinality(Dynamic(data.rec))
       /\ \A k \in Dynamic(data.rec) : TrimSpace(k) \in DOMAIN keys
       /\ \E o \in Orders(Dynamic(data.rec)) :
            \A i \in 1..Len(vals) : vals[i] = RowOf(data.rec, o[i])
  /\ \A r \in BagToSet(valuesT) : \E k \in DOMAIN keys : keys[k] = r.keyId
  /\ (keyFlushes = 1 /\ ifatal = "no") =>
       \A r \in BagToSet(valuesT) : \E kr \in keysT : kr.id = r.keyId

\* C15's case: a record with an untrimmed label and a value that is not
\* text gave two rows, and rows are persisted together with their keys
C15_Witness ==
  /\ keyFlushes = 1
  /\ ifatal = "no"
  /\ Cardinality(keysT) = 2
  /\ \E r \in BagToSet(valuesT) : r.data = ""
  /\ \E r \in BagToSet(valuesT) : r.data = "x"
  /\ <<"a">> \in DOMAIN keys
  /\ nlines = 1

\* C16: attribute keys are unique within one record: the value rows addKeys
\* produced for a record carry pairwise distinct key ids, also when two raw
\* labels of the record differ only in surrounding whitespace.
C16_KeysUniqueInRecord ==
  ipc = "sendVals" =>
    \A i, j \in 1..Len(vals) : vals[i].keyId = vals[j].keyId => i = j

\* main can still call generate or addKeys: it is in its loop
MainWrites == ipc \in {"read", "sendEntry", "sendVals"}

\* the store goroutine holds the dictionary or can come to hold it: the keys
\* message is on the channel, or dbkey.store has run
StoreReads == keyFlushes > 0 \/ \E i \in 1..Len(db) : db[i].type = "keys"

\* C17: the key dictionary and the sequence counter are owned by one
\* execution context: while main can still write them, the store goroutine
\* has no access to the dictionary, and it reads the dictionary only after
\* main's last addKeys call; what it then reads is the dictionary main left.
C17_SingleOwner ==
  /\ ~(MainWrites /\ StoreReads)
  /\ StoreReads => ipc \in {"wait", "exit"} /\ vals = <<>>
  /\ keyFlushes > 0 => keysT \subseteq KeyRows(keys)

\* C17's case: main has interned two names and waits for done; the
\* dictionary is the next message the store goroutine takes
C17_Witness ==
  /\ ipc = "wait"
  /\ db # <<>>
  /\ Head(db).type = "keys"
  /\ keyFlushes = 0
  /\ Cardinality(DOMAIN keys) = 2

\* --------------------------------------------------------- claims, SpecRuns

\* C18: key id assignment is deterministic in the input: two runs of the
\* importer over the same sequence of records hold the same dictionary
\* (each name has the same id in both), also after a record that introduces
\* two or more new names.
C18_KeyIdsDeterministic ==
  keysA = keysB

\* -------------------------------------------------------- claims, SpecPipe

\* C11: shutdown drains every stage: when the process has ended without a
\* fatal error (the producer closed the identifier channel, the workers
\* finished), the printer's range over out has ended because out was closed,
\* and every record sent on out was written, each with its newline.  No
\* statement of main.go closes out, so no action takes the printer to "done".
C11_ShutdownDrains ==
  mpc = "exited" =>
    /\ prpc = "done"
    /\ written = sent
    /\ newlines = Len(sent)

\* the documents of the records in a sequence
Range(q) == {q[i] : i \in 1..Len(q)}

\* C12: a document whose content cannot be fetched is dropped without
\* stopping the run: the step in which a worker's reader fails sends nothing
\* on out, leaves the process running and the other identifiers on the
\* channel, and puts the worker back at its range over the channel; and a
\* dropped document never has a record on out.
C12_DropKeepsRunning ==
  /\ [](\A d \in dropped : d \notin Range(sent))
  /\ [][\A c \in Callers :
          (gpc[c] = "page" /\ doc[c] \in dropped') =>
            /\ gpc'[c] = "recv"
            /\ crashed' = "no"
            /\ mpc' = mpc
            /\ sent' = sent
            /\ domains' = domains]_vars

\* C12's case: the first document was dropped, and the second document's
\* record was sent and written afterwards
C12_Witness ==
  /\ dropped = {1}
  /\ takes[2] = 1
  /\ sent = <<2>>
  /\ written = <<2>>
  /\ newlines = 1
  /\ crashed = "no"

\* C14: date parsing is best-effort in the extractor: whatever a fetched
\* page holds as its modification date (nothing, a text that parses, a text
\* that does not, a link with no text), the run is not ended by it: metadata
\* neither panics nor reports an extraction failure.
C14_DateBestEffort ==
  crashed \notin {"date", "extract"}

\* the workers that hold the identifier d
Holders(d) == {c \in Callers : doc[c] = d}

\* C19: each document identifier is handled exactly once: an identifier the
\* producer emitted is on the channel or was taken by exactly one worker;
\* a taken identifier is with one worker, or was dropped, or has one record
\* on out, and never two of these; and when processor.run has returned in a
\* run with no fatal error, every emitted identifier has exactly one record
\* on out if its content was fetched and none if it was dropped.
C19_ExactlyOnce ==
  /\ \A d \in Docs :
       /\ takes[d] <= 1
       /\ (d <= produced) <=> (takes[d] = 1 \/ d \in Range(domains))
       /\ ~(takes[d] = 1 /\ d \in Range(domains))
       /\ Cardinality({i \in 1..Len(sent) : sent[i] = d}) <= 1
       /\ takes[d] = 1 =>
            Cardinality(Holders(d)) + Cardinality({d} \cap dropped)
              + Cardinality({d} \cap Range(sent)) = 1
       /\ takes[d] = 0 => Holders(d) = {} /\ d \notin dropped /\ d \notin Range(sent)
  /\ emitted = Len(sent)
  /\ (mpc # "wait" /\ crashed = "no") =>
       \A d \in 1..produced : (d \in Range(sent)) <=> (d \notin dropped)

\* C19's case: two workers shared two identifiers, the second identifier's
\* record reached out before the first's, and processor.run has returned
C19_Witness ==
  /\ mpc = "returned"
  /\ crashed = "no"
  /\ produced = 2
  /\ sent = <<2, 1>>
  /\ dropped = {}

\* C20: the extraction pool and the fetch pool cannot deadlock each other:
\* every get call returns and, the identifier channel closed and drained,
\* processor.run returns.  As a property of finite runs: a state in which
\* no goroutine can take a step any more has no get call waiting and has
\* processor.run returned.  (The process ending by the log.Fatalf of the
\* producer or of the printer, or in metadata, before any image is fetched,
\* is left aside: the claim is about the image fetches.)
C20_PoolsTerminate ==
  (~ENABLED NextPipe /\ crashed \notin {"producer", "printer", "date", "extract"}) =>
    /\ \A c \in Callers : gpc[c] \notin {"send", "wait"}
    /\ mpc # "wait"

====
